---------------------------- MODULE Spec2Model ----------------------------
(***************************************************************************)
(* Model of the Eizo FlexScan HID driver core (src/eizo.c): the feature-   *)
(* report exchanges eizo_set_value and eizo_get_value, run by concurrent   *)
(* callers on one device that share data->lock and data->counter, against  *)
(* a monitor that answers the feature reports.                             *)
(*                                                                         *)
(* C arrays are 0-based and TLA+ sequences 1-based: report[i] of the code  *)
(* is rep[i + 1] here (At, Put).                                           *)
(***************************************************************************)
EXTENDS Integers, Sequences, FiniteSets, TLC

-----------------------------------------------------------------------------
(* Bounds of the model *)

\* number of concurrent callers of set/get on the one device
NumCallers == 2
\* total number of set/get calls started in one behaviour
MaxCalls == 2
\* how far past the 32-byte payload region a caller's length may reach
MaxOver == 1
\* number of calls the single caller of SeqSpec makes
MaxSeqCalls == 2
\* total number of set/get calls started next to the notifications of EventSpec
MaxEvCalls == 1
\* total number of writes of the brightness attribute in StoreSpec
MaxStores == 2
\* number of calls the single caller of ApiSpec makes
MaxApiCalls == 1
\* total number of brightness reads and writes started between probe and remove
MaxLifeCalls == 2

-----------------------------------------------------------------------------
(* Program constants *)

\* kzalloc(39, ...) and the length handed to hid_hw_raw_request
ReportLen == 39
\* &report[7]: offset of the payload region
PayloadOff == 7
\* report identifier of eizo_set_value's request
SetReportId == 2
\* report identifier of both eizo_get_value requests
GetReportId == 3
\* data->counter as devm_kzalloc delivers it, before eizo_data_init
CounterZeroed == 0
\* an eizo_data_init that leaves the counter as allocated
CounterLeftZeroed == CounterZeroed
\* data->counter = 0x0001
CounterInit == 1
\* a mutex nobody holds (mutex_init)
NoOwner == 0

HID_REQ_SET_REPORT == "SET_REPORT"
HID_REQ_GET_REPORT == "GET_REPORT"

\* bytes left for the payload behind the 7-byte header
PayloadMax == ReportLen - PayloadOff

Callers == 1..NumCallers

-----------------------------------------------------------------------------
(* Inputs *)

\* usage codes: 1 and one whose four bytes differ (0x12345678)
Usages == {1, 305419896}

\* lengths past the 32-byte payload region
OverLens == (PayloadMax + 1)..(PayloadMax + MaxOver)

\* payload lengths: empty, the brightness width, full, and past the region
Lens == {0, 2, PayloadMax} \cup OverLens

\* a caller-supplied value of n bytes; seed 0 starts AA BB
ValueOf(n, seed) ==
    [i \in 1..n |-> IF seed = 0 /\ i = 1 THEN 170
                    ELSE IF seed = 0 /\ i = 2 THEN 187
                    ELSE (seed * 16 + i) % 256]

Values == {ValueOf(n, 0) : n \in Lens} \cup {ValueOf(2, 1)}

\* what hid_hw_raw_request may return: a negative errno (-EIO, -EPIPE) or
\* the number of bytes transferred (all 39, or a short transfer of 8)
TransportResults == {-5, -32, ReportLen, PayloadOff + 1}

\* the smaller input sets of the concurrent callers
ConcUsages == {1}

\* the usage code of the brightness setting
EIZO_USAGE_BRIGHTNESS == 8519696
ConcLens == {2, PayloadMax + 1}
ConcValues == {ValueOf(n, 0) : n \in ConcLens}
ConcResults == {-5, ReportLen}

\* result of kzalloc: a zeroed 39-byte buffer, or NULL
NullReport == <<>>
ZeroReport == [i \in 1..ReportLen |-> 0]
AllocResults == {ZeroReport, NullReport}

\* the caller's output buffer before eizo_get_value fills it (0xEE bytes)
OutInit(n) == [i \in 1..n |-> 238]

\* bytes an out-of-bounds read finds past the end of the 39-byte report
JunkBytes == {0, 90}

-----------------------------------------------------------------------------
(* State *)

VARIABLES
    counter,    \* data->counter
    lock,       \* data->lock: its owner, or NoOwner
    pc,         \* pc[t]: where caller t stands in eizo_set_value/eizo_get_value
    op,         \* op[t]: "set", "get" or "none": the call caller t is in / was last in
    usage,      \* usage[t]: the usage argument
    value,      \* value[t]: the value argument of a set
    len,        \* len[t]: the len argument
    report,     \* report[t]: the call's report buffer
    ret,        \* ret[t]: the local ret; after the return, the value returned
    out,        \* out[t]: the caller's buffer that a get fills
    exch,       \* exch[t]: number of the exchange caller t is in / was last in
    nexch,      \* number of calls started so far
    log,        \* the transport calls in the order they were issued
    returns,    \* the calls that returned, in the order they returned
    dev,        \* the monitor: payload region stored for each usage
    armed,      \* the monitor: header of the last request with identifier 3
    lastSet,    \* for each usage, the value of the last set that succeeded
    corrupted,  \* memory past the end of a report buffer has been overwritten
    ctrReads,   \* who read data->counter, and who owned the lock at that moment
    event,      \* the last line eizo_hid_driver_raw_event logged
    ppc,        \* where eizo_hid_driver_probe / eizo_hid_driver_remove stands
    pdata,      \* the local data of eizo_hid_driver_probe / eizo_hid_driver_remove
    hw,         \* the transport: "stopped", "started" or "open"
    group,      \* the sysfs group "settings": "none", "live", "removing" or "removed"
    drvdata,    \* hid_get_drvdata(hdev): "null" (NULL) or "data" (the struct eizo_data)
    mutex,      \* data->lock as an object: "uninit", "init" or "destroyed"
    trace,      \* the calls probe and remove made, with their outcome, in order
    sbuf,       \* sbuf[t]: the brightness write caller t is in
    stores      \* the brightness writes that returned, in order

vars == <<counter, lock, pc, op, usage, value, len, report, ret, out, exch,
          nexch, log, returns, dev, armed, lastSet, corrupted, ctrReads,
          event, ppc, pdata, hw, group, drvdata, mutex, trace, sbuf, stores>>

\* what eizo_set_value and eizo_get_value never touch
extvars == <<event, ppc, pdata, hw, group, drvdata, mutex, trace>>

\* the state of eizo_attr_store_brightness
sysvars == <<sbuf, stores>>

callvars == <<op, usage, value, len, exch, nexch>>
devvars == <<log, dev, armed, lastSet>>

\* one call that returned
Return(t) == [exch |-> exch[t], caller |-> t, op |-> op[t], ret |-> ret[t]]

-----------------------------------------------------------------------------
(* Byte and buffer helpers *)

\* (x >> k) & 0xff
ShiftByte(x, k) == (x \div (2 ^ k)) % 256

\* report[i]
At(rep, i) == rep[i + 1]

\* report[i] = b
Put(rep, i, b) == [rep EXCEPT ![i + 1] = b]

\* data[1] | (data[2] << 8) | (data[3] << 16) | (data[4] << 24)
UsageOf(rep) ==
    At(rep, 1) + At(rep, 2) * 256 + At(rep, 3) * 65536 + At(rep, 4) * 16777216

\* a header written high byte first
WriteHeaderBigEndian(rep, u, c) ==
    LET r1 == Put(rep, 1, ShiftByte(u, 24))
        r2 == Put(r1, 2, ShiftByte(u, 16))
        r3 == Put(r2, 3, ShiftByte(u, 8))
        r4 == Put(r3, 4, ShiftByte(u, 0))
        r5 == Put(r4, 5, ShiftByte(c, 8))
    IN  Put(r5, 6, ShiftByte(c, 0))

\* report[1..4] = usage, report[5..6] = counter, low byte first
WriteHeader(rep, u, c) ==
    LET r1 == Put(rep, 1, ShiftByte(u, 0))
        r2 == Put(r1, 2, ShiftByte(u, 8))
        r3 == Put(r2, 3, ShiftByte(u, 16))
        r4 == Put(r3, 4, ShiftByte(u, 24))
        r5 == Put(r4, 5, ShiftByte(c, 0))
    IN  Put(r5, 6, ShiftByte(c, 8))

\* memcpy(&report[7], value, len): the bytes that land inside the buffer
CopyIn(rep, v, n) ==
    [j \in 1..ReportLen |->
        IF j - 1 >= PayloadOff /\ j - 1 < PayloadOff + n
        THEN v[j - PayloadOff] ELSE rep[j]]

\* a copy that starts one byte late, at &report[8]
CopyOutShifted(rep, n) ==
    [i \in 1..(IF n <= PayloadMax THEN n ELSE PayloadMax) |->
        IF PayloadOff + i < ReportLen THEN At(rep, PayloadOff + i) ELSE 0]

\* memcpy(value, &report[7], len): the bytes read from inside the buffer
CopyOut(rep, n) ==
    [i \in 1..(IF n <= PayloadMax THEN n ELSE PayloadMax) |-> At(rep, PayloadOff + i - 1)]

\* memcpy with len > 32 runs past the end of the 39-byte allocation
Overruns(n) == PayloadOff + n > ReportLen

-----------------------------------------------------------------------------
(* The monitor behind hid_hw_raw_request *)

\* one recorded transport call
LogEntry(t, id, req, r) ==
    [exch |-> exch[t], caller |-> t, op |-> op[t], id |-> id, req |-> req, len |-> ReportLen,
     res |-> r, owner |-> lock, frame |-> report[t]]

\* bytes 7..38 of a frame
Region(rep) == [i \in 1..PayloadMax |-> At(rep, PayloadOff + i - 1)]

\* the monitor's answer to a GET_REPORT: the armed header, then the region
\* stored for the armed usage
Response ==
    LET u == UsageOf(armed)
        stored == IF u \in DOMAIN dev THEN dev[u] ELSE [i \in 1..PayloadMax |-> 0]
    IN  [j \in 1..ReportLen |-> IF j <= PayloadOff THEN armed[j] ELSE stored[j - PayloadOff]]

\* the buffer after a GET_REPORT that transferred r bytes
Received(rep, r) == [j \in 1..ReportLen |-> IF j <= r THEN Response[j] ELSE rep[j]]

-----------------------------------------------------------------------------
(* data->lock *)

\* a lock whose mutex_lock returns at once, owned or not
MutexNeverWaits == TRUE

\* mutex_lock(&data->lock) returns once nobody owns the mutex
MutexFree == lock = NoOwner

\* an exit that unlocks only when ret is not an error
UnlockedOnSuccess(t) == IF ret[t] < 0 THEN lock ELSE NoOwner

\* the owner after mutex_unlock(&data->lock)
Unlocked(t) == NoOwner

\* IS_ERR(p): p is an error code cast to a pointer; neither NULL nor the
\* address of an object is one
IS_ERR(p) == p \notin {"null", "data"}

\* where a call stands once it has its report: at mutex_lock(&data->lock),
\* with the local data either the struct eizo_data or NULL
AtLock(o) == IF drvdata = "null" THEN o \o "_lock_null" ELSE o \o "_lock"

\* counter = data->counter (lines 34, 78), noted with the lock's owner
ReadCounter(t) == ctrReads' = ctrReads \cup {[caller |-> t, owner |-> lock]}

\* a task that died inside the kernel: it never returns and never unlocks
Oops(t) ==
    /\ pc' = [pc EXCEPT ![t] = "oops"]
    /\ UNCHANGED <<extvars, sysvars, counter, lock, callvars, ret, devvars, returns, corrupted>>

\* lines 33, 77: mutex_lock(&data->lock) with data NULL: the task dies
\* before it owns anything
LockFault(t) ==
    /\ pc[t] \in {"set_lock_null", "get_lock_null"}
    /\ pc' = [pc EXCEPT ![t] = "fault"]
    /\ UNCHANGED <<extvars, sysvars, ctrReads, counter, lock, callvars, report, ret, out,
                   devvars, returns, corrupted>>

-----------------------------------------------------------------------------
(* eizo_set_value *)

\* lines 17-31: the call, hid_get_drvdata and kzalloc
SetCall(t, u, v, a) ==
    /\ pc[t] = "idle"
    /\ op' = [op EXCEPT ![t] = "set"]
    /\ usage' = [usage EXCEPT ![t] = u]
    /\ value' = [value EXCEPT ![t] = v]
    /\ len' = [len EXCEPT ![t] = Len(v)]
    /\ exch' = [exch EXCEPT ![t] = nexch + 1]
    /\ nexch' = nexch + 1
    /\ IF IS_ERR(drvdata)
          THEN /\ ret' = [ret EXCEPT ![t] = -61]
               /\ returns' = Append(returns, [exch |-> nexch + 1, caller |-> t,
                                              op |-> "set", ret |-> -61])
               /\ UNCHANGED <<pc, report>>
          ELSE /\ report' = [report EXCEPT ![t] = a]
               /\ pc' = [pc EXCEPT ![t] = AtLock("set")]
               /\ UNCHANGED <<ret, returns>>
    /\ UNCHANGED <<extvars, ctrReads, counter, lock, out, devvars, corrupted>>

\* line 33: mutex_lock
SetLock(t) ==
    /\ pc[t] = "set_lock"
    /\ MutexFree
    /\ lock' = t
    /\ pc' = [pc EXCEPT ![t] = "set_build"]
    /\ UNCHANGED <<extvars, sysvars, ctrReads, counter, callvars, report, ret, out, devvars, returns, corrupted>>

\* lines 34-44: read the counter, write the header, copy the value in
SetBuild(t) ==
    /\ pc[t] = "set_build"
    /\ report[t] # NullReport
    /\ report' = [report EXCEPT
                    ![t] = CopyIn(WriteHeader(report[t], usage[t], counter), value[t], len[t])]
    /\ corrupted' = (corrupted \/ Overruns(len[t]))
    /\ pc' = [pc EXCEPT ![t] = "set_request"]
    /\ ReadCounter(t)
    /\ UNCHANGED <<extvars, sysvars, counter, lock, callvars, ret, out, devvars, returns>>

\* lines 34-44: a store through the NULL report at line 36 kills the task;
\* so does a memcpy past the end of the report that the kernel catches, after
\* the header is written: either before it copies a byte (a checked memcpy)
\* or at byte 39, with the 32 bytes that fit copied in (a faulting one)
SetBuildOops(t) ==
    /\ pc[t] = "set_build"
    /\ \/ /\ report[t] = NullReport
          /\ UNCHANGED report
       \/ /\ report[t] # NullReport
          /\ Overruns(len[t])
          /\ \E copied \in BOOLEAN :
                report' = [report EXCEPT
                    ![t] = IF copied
                           THEN CopyIn(WriteHeader(report[t], usage[t], counter),
                                       value[t], len[t])
                           ELSE WriteHeader(report[t], usage[t], counter)]
    /\ ReadCounter(t)
    /\ Oops(t)
    /\ UNCHANGED out

\* an exit that hands the transport's result through
SetRetCount(r) == r

\* the value of ret at the exit label, from hid_hw_raw_request's result
SetRet(r) == IF r < 0 THEN r ELSE 0

\* a request that is issued again when it failed
SetRequestRetry(r) == IF r < 0 THEN "set_request" ELSE "set_exit"

\* where eizo_set_value goes after the request returned r (lines 47-53):
\* to the exit label, by the goto or by falling through
SetRequestNext(r) == "set_exit"

\* lines 46-52: the one transport call
SetRequest(t, r) ==
    /\ pc[t] = "set_request"
    /\ log' = Append(log, LogEntry(t, SetReportId, HID_REQ_SET_REPORT, r))
    /\ IF r >= 0
       THEN /\ dev' = [dev EXCEPT ![usage[t]] = Region(report[t])]
            /\ lastSet' = [lastSet EXCEPT ![usage[t]] = [done |-> TRUE, val |-> value[t]]]
       ELSE UNCHANGED <<dev, lastSet>>
    /\ ret' = [ret EXCEPT ![t] = SetRet(r)]
    /\ pc' = [pc EXCEPT ![t] = SetRequestNext(r)]
    /\ UNCHANGED <<extvars, sysvars, ctrReads, counter, lock, callvars, report, out, armed, returns, corrupted>>

\* lines 53-54: exit: mutex_unlock
SetExit(t) ==
    /\ pc[t] = "set_exit"
    /\ lock' = Unlocked(t)
    /\ pc' = [pc EXCEPT ![t] = "after_unlock"]
    /\ UNCHANGED <<extvars, sysvars, ctrReads, counter, callvars, report, ret, out, devvars,
                   returns, corrupted>>

\* lines 55-56: kfree, return ret
SetReturn(t) ==
    /\ pc[t] = "after_unlock"
    /\ op[t] = "set"
    /\ returns' = Append(returns, Return(t))
    /\ pc' = [pc EXCEPT ![t] = "idle"]
    /\ UNCHANGED <<extvars, sysvars, ctrReads, counter, lock, callvars, report, ret, out,
                   devvars, corrupted>>

-----------------------------------------------------------------------------
(* eizo_get_value *)

\* lines 59-75: the call, hid_get_drvdata and kzalloc
GetCall(t, u, n, a) ==
    /\ pc[t] = "idle"
    /\ op' = [op EXCEPT ![t] = "get"]
    /\ usage' = [usage EXCEPT ![t] = u]
    /\ value' = [value EXCEPT ![t] = <<>>]
    /\ len' = [len EXCEPT ![t] = n]
    /\ out' = [out EXCEPT ![t] = OutInit(n)]
    /\ exch' = [exch EXCEPT ![t] = nexch + 1]
    /\ nexch' = nexch + 1
    /\ IF IS_ERR(drvdata)
          THEN /\ ret' = [ret EXCEPT ![t] = -61]
               /\ returns' = Append(returns, [exch |-> nexch + 1, caller |-> t,
                                              op |-> "get", ret |-> -61])
               /\ UNCHANGED <<pc, report>>
          ELSE /\ report' = [report EXCEPT ![t] = a]
               /\ pc' = [pc EXCEPT ![t] = AtLock("get")]
               /\ UNCHANGED <<ret, returns>>
    /\ UNCHANGED <<extvars, sysvars, ctrReads, counter, lock, devvars, corrupted>>

\* line 77: mutex_lock
GetLock(t) ==
    /\ pc[t] = "get_lock"
    /\ MutexFree
    /\ lock' = t
    /\ pc' = [pc EXCEPT ![t] = "get_build"]
    /\ UNCHANGED <<extvars, sysvars, ctrReads, counter, callvars, report, ret, out, devvars, returns, corrupted>>

\* lines 78-86: read the counter, write the header
GetBuild(t) ==
    /\ pc[t] = "get_build"
    /\ report[t] # NullReport
    /\ report' = [report EXCEPT ![t] = WriteHeader(report[t], usage[t], counter)]
    /\ pc' = [pc EXCEPT ![t] = "get_arm"]
    /\ ReadCounter(t)
    /\ UNCHANGED <<extvars, sysvars, counter, lock, callvars, ret, out, devvars, returns, corrupted>>

\* line 80: a store through the NULL report kills the task
GetBuildOops(t) ==
    /\ pc[t] = "get_build"
    /\ report[t] = NullReport
    /\ ReadCounter(t)
    /\ Oops(t)
    /\ UNCHANGED <<report, out>>

\* an arm call whose result is not looked at
ArmNextUnchecked(r) == "get_fetch"

\* an arm call after which the fetch is left out
ArmNextSkipFetch(r) == IF r < 0 THEN "get_exit" ELSE "get_copy"

\* where eizo_get_value goes after the arm call returned r (lines 89-92)
ArmNext(r) == IF r < 0 THEN "get_exit" ELSE "get_fetch"

\* where eizo_get_value goes after the fetch call returned r (lines 95-98)
FetchNext(r) == IF r < 0 THEN "get_exit" ELSE "get_copy"

\* lines 88-92: the arm call
GetArm(t, r) ==
    /\ pc[t] = "get_arm"
    /\ log' = Append(log, LogEntry(t, GetReportId, HID_REQ_SET_REPORT, r))
    /\ armed' = IF r >= 0 THEN SubSeq(report[t], 1, PayloadOff) ELSE armed
    /\ ret' = [ret EXCEPT ![t] = r]
    /\ pc' = [pc EXCEPT ![t] = ArmNext(r)]
    /\ UNCHANGED <<extvars, sysvars, ctrReads, counter, lock, callvars, report, out, dev, lastSet, returns, corrupted>>

\* lines 94-98: the fetch call, which overwrites the report
GetFetch(t, r) ==
    /\ pc[t] = "get_fetch"
    /\ log' = Append(log, LogEntry(t, GetReportId, HID_REQ_GET_REPORT, r))
    /\ report' = [report EXCEPT ![t] = IF r >= 0 THEN Received(report[t], r) ELSE report[t]]
    /\ ret' = [ret EXCEPT ![t] = r]
    /\ pc' = [pc EXCEPT ![t] = FetchNext(r)]
    /\ UNCHANGED <<extvars, sysvars, ctrReads, counter, lock, callvars, out, dev, armed, lastSet, returns, corrupted>>

\* lines 100-102: copy the value out; past 32 bytes the copy reads beyond
\* the report and delivers whatever lies there
GetCopy(t, junk) ==
    /\ pc[t] = "get_copy"
    /\ Len(junk) = len[t] - Len(CopyOut(report[t], len[t]))
    /\ out' = [out EXCEPT ![t] = CopyOut(report[t], len[t]) \o junk]
    /\ ret' = [ret EXCEPT ![t] = 0]
    /\ pc' = [pc EXCEPT ![t] = "get_exit"]
    /\ UNCHANGED <<extvars, sysvars, ctrReads, counter, lock, callvars, report, devvars, returns, corrupted>>

\* line 100: a memcpy past the end of the report that the kernel catches,
\* either before it copies a byte or at byte 39, with the 32 bytes of the
\* report copied out
GetCopyOops(t) ==
    /\ pc[t] = "get_copy"
    /\ Overruns(len[t])
    /\ \E copied \in BOOLEAN :
          out' = [out EXCEPT
              ![t] = IF copied
                     THEN [i \in 1..len[t] |->
                              IF i <= PayloadMax THEN At(report[t], PayloadOff + i - 1)
                                                 ELSE out[t][i]]
                     ELSE out[t]]
    /\ Oops(t)
    /\ UNCHANGED <<ctrReads, report>>

\* lines 103-104: exit: mutex_unlock
GetExit(t) ==
    /\ pc[t] = "get_exit"
    /\ lock' = Unlocked(t)
    /\ pc' = [pc EXCEPT ![t] = "after_unlock"]
    /\ UNCHANGED <<extvars, sysvars, ctrReads, counter, callvars, report, ret, out, devvars,
                   returns, corrupted>>

\* lines 105-106: kfree, return ret
GetReturn(t) ==
    /\ pc[t] = "after_unlock"
    /\ op[t] = "get"
    /\ returns' = Append(returns, Return(t))
    /\ pc' = [pc EXCEPT ![t] = "idle"]
    /\ UNCHANGED <<extvars, sysvars, ctrReads, counter, lock, callvars, report, ret, out,
                   devvars, corrupted>>

-----------------------------------------------------------------------------
(* The specification: callers on a bound device *)

\* what an out-of-bounds read of up to MaxOver bytes can deliver
Junk == UNION {[1..k -> JunkBytes] : k \in 0..MaxOver}

\* one call of probe or remove and the int it returned (0 for a call that
\* returns none or a pointer); "return" is the return of probe itself
Step(call, res) == [call |-> call, res |-> res]

\* what a probe that succeeded did, in order (lines 178-211)
ProbeTrace ==
    <<Step("devm_kzalloc", 0), Step("hid_parse", 0), Step("hid_hw_start", 0),
      Step("hid_set_drvdata", 0), Step("eizo_data_init", 0), Step("hid_hw_open", 0),
      Step("sysfs_create_group", 0), Step("return", 0)>>

\* the usages the monitor knows
AllUsages == Usages \cup {EIZO_USAGE_BRIGHTNESS}

\* nothing logged yet
NoEvent == [kind |-> "none"]

\* no brightness write in progress
NoStore == [stage |-> "none"]

\* the state eizo_hid_driver_probe leaves behind (eizo_data_init)
Init ==
    /\ counter = CounterInit
    /\ lock = NoOwner
    /\ pc = [t \in Callers |-> "idle"]
    /\ op = [t \in Callers |-> "none"]
    /\ usage = [t \in Callers |-> 0]
    /\ value = [t \in Callers |-> <<>>]
    /\ len = [t \in Callers |-> 0]
    /\ report = [t \in Callers |-> NullReport]
    /\ ret = [t \in Callers |-> 0]
    /\ out = [t \in Callers |-> <<>>]
    /\ exch = [t \in Callers |-> 0]
    /\ nexch = 0
    /\ log = <<>>
    /\ returns = <<>>
    /\ dev = [u \in AllUsages |-> [i \in 1..PayloadMax |-> 0]]
    /\ armed = [i \in 1..PayloadOff |-> 0]
    /\ lastSet = [u \in AllUsages |-> [done |-> FALSE, val |-> <<>>]]
    /\ corrupted = FALSE
    /\ ctrReads = {}
    /\ event = NoEvent
    /\ ppc = "bound"
    /\ pdata = "data"
    /\ hw = "open"
    /\ group = "live"
    /\ drvdata = "data"
    /\ mutex = "init"
    /\ trace = ProbeTrace
    /\ sbuf = [t \in Callers |-> NoStore]
    /\ stores = <<>>

Next ==
    \E t \in Callers :
        \/ \E u \in ConcUsages, v \in ConcValues, a \in AllocResults :
              nexch < MaxCalls /\ SetCall(t, u, v, a) /\ UNCHANGED sysvars
        \/ SetLock(t)
        \/ SetBuild(t)
        \/ SetBuildOops(t)
        \/ \E r \in ConcResults : SetRequest(t, r)
        \/ SetExit(t)
        \/ SetReturn(t)
        \/ \E u \in ConcUsages, n \in ConcLens, a \in AllocResults :
              nexch < MaxCalls /\ GetCall(t, u, n, a)
        \/ GetLock(t)
        \/ GetBuild(t)
        \/ GetBuildOops(t)
        \/ \E r \in ConcResults : GetArm(t, r)
        \/ \E r \in ConcResults : GetFetch(t, r)
        \/ \E junk \in Junk : GetCopy(t, junk)
        \/ GetCopyOops(t)
        \/ GetExit(t)
        \/ GetReturn(t)

Spec == Init /\ [][Next]_vars

-----------------------------------------------------------------------------
(* The specification of one caller with the full input sets *)

\* the one caller, which makes at most MaxSeqCalls calls, one after the other
SeqCaller == CHOOSE t \in Callers : \A o \in Callers : t <= o

SeqInit == Init

SeqNext ==
    \/ \E u \in Usages, v \in Values, a \in AllocResults :
          nexch < MaxSeqCalls /\ SetCall(SeqCaller, u, v, a) /\ UNCHANGED sysvars
    \/ SetLock(SeqCaller)
    \/ SetBuild(SeqCaller)
    \/ SetBuildOops(SeqCaller)
    \/ \E r \in TransportResults : SetRequest(SeqCaller, r)
    \/ SetExit(SeqCaller)
    \/ SetReturn(SeqCaller)
    \/ \E u \in Usages, n \in Lens, a \in AllocResults :
          nexch < MaxSeqCalls /\ GetCall(SeqCaller, u, n, a)
    \/ GetLock(SeqCaller)
    \/ GetBuild(SeqCaller)
    \/ GetBuildOops(SeqCaller)
    \/ \E r \in TransportResults : GetArm(SeqCaller, r)
    \/ \E r \in TransportResults : GetFetch(SeqCaller, r)
    \/ \E junk \in Junk : GetCopy(SeqCaller, junk)
    \/ GetCopyOops(SeqCaller)
    \/ GetExit(SeqCaller)
    \/ GetReturn(SeqCaller)

SeqSpec == SeqInit /\ [][SeqNext]_vars

-----------------------------------------------------------------------------
(* eizo_hid_driver_raw_event *)

\* the steps of a call that has started, with transport results from rs
CallerRun(t, rs) ==
    \/ SetLock(t)
    \/ SetBuild(t)
    \/ SetBuildOops(t)
    \/ \E r \in rs : SetRequest(t, r)
    \/ SetExit(t)
    \/ SetReturn(t)
    \/ GetLock(t)
    \/ GetBuild(t)
    \/ GetBuildOops(t)
    \/ \E r \in rs : GetArm(t, r)
    \/ \E r \in rs : GetFetch(t, r)
    \/ \E junk \in Junk : GetCopy(t, junk)
    \/ GetCopyOops(t)
    \/ GetExit(t)
    \/ GetReturn(t)

\* the highest index the handler reads is data[10]
EventReadLen == 11

\* unsolicited reports: identifier 2 and 3 in the frame layout, one with
\* another identifier, and one of identifier 2 that is only 10 bytes long
\* (the top byte of a 32-bit field stays below 0x80 here)
EventReports ==
    { [id |-> SetReportId, data |-> <<5, 120, 86, 52, 18, 1, 0, 10, 11, 12, 13, 0>>],
      [id |-> GetReportId, data |-> <<0, 1, 0, 0, 0, 2, 1, 200, 0, 0, 0>>],
      [id |-> 1,           data |-> <<1, 2, 3>>],
      [id |-> SetReportId, data |-> <<7, 1, 0, 0, 0, 1, 0, 100, 0, 0>>] }

\* how many bytes the handler reads past the size of report r
EventShort(r) ==
    IF r.id \in {SetReportId, GetReportId} /\ Len(r.data) < EventReadLen
    THEN EventReadLen - Len(r.data) ELSE 0

\* what the handler finds when it reads past the size of a short report
EventJunk == UNION {[1..EventShort(r) -> JunkBytes] : r \in EventReports}

\* a value decoded from two bytes only
EventValue16(d) == At(d, 7) + At(d, 8) * 256

\* value = data[7] | (data[8] << 8) | (data[9] << 16) | (data[10] << 24)
EventValue(d) == At(d, 7) + At(d, 8) * 256 + At(d, 9) * 65536 + At(d, 10) * 16777216

\* counter = data[5] | (data[6] << 8)
EventCounter(d) == At(d, 5) + At(d, 6) * 256

\* lines 230-252: decode and log the report; the session is not touched.
\* junk is what lies behind a report shorter than the 11 bytes read
RawEvent(r, junk) ==
    /\ hw # "stopped"
    /\ Len(junk) = EventShort(r)
    /\ LET d == r.data \o junk
       IN  event' = IF r.id \in {SetReportId, GetReportId}
                    THEN [kind |-> "decoded", raw |-> r, id |-> At(d, 0),
                          usage |-> UsageOf(d), counter |-> EventCounter(d),
                          value |-> EventValue(d)]
                    ELSE [kind |-> "opaque", raw |-> r, id |-> r.id,
                          usage |-> 0, counter |-> 0, value |-> 0]
    /\ UNCHANGED <<counter, lock, pc, callvars, report, ret, out, devvars, returns,
                   corrupted, ctrReads, ppc, pdata, hw, group, drvdata, mutex, trace, sysvars>>

\* callers and notifications side by side on the bound device
EventNext ==
    \/ \E t \in Callers :
          \/ \E u \in ConcUsages, v \in ConcValues, a \in AllocResults :
                nexch < MaxEvCalls /\ SetCall(t, u, v, a) /\ UNCHANGED sysvars
          \/ \E u \in ConcUsages, n \in ConcLens, a \in AllocResults :
                nexch < MaxEvCalls /\ GetCall(t, u, n, a)
          \/ CallerRun(t, ConcResults)
    \/ \E r \in EventReports, junk \in EventJunk : RawEvent(r, junk)

EventSpec == Init /\ [][EventNext]_vars

-----------------------------------------------------------------------------
(* eizo_hid_driver_probe and eizo_hid_driver_remove *)

\* what devm_kzalloc can return: the zeroed struct eizo_data, or NULL
DataResults == {"data", "null"}

\* what hid_parse, hid_hw_start, hid_hw_open and sysfs_create_group can return
ProbeResults == {0, -5}

\* retval at the exit of probe: what the step that failed returned
RetVal(tr) == LET i == CHOOSE j \in 1..Len(tr) : tr[j].res < 0 IN tr[i].res

\* lines 178-182: devm_kzalloc and its check
ProbeAlloc(a) ==
    /\ ppc = "unbound"
    /\ pdata' = a
    /\ counter' = CounterZeroed
    /\ IF IS_ERR(a)
          THEN /\ ppc' = "failed"
               /\ trace' = trace \o <<Step("devm_kzalloc", 0), Step("return", -12)>>
          ELSE /\ ppc' = "parse"
               /\ trace' = Append(trace, Step("devm_kzalloc", 0))
    /\ UNCHANGED <<lock, pc, callvars, report, ret, out, devvars, returns, corrupted,
                   ctrReads, event, hw, group, drvdata, mutex, sysvars>>

\* lines 184-188: hid_parse
ProbeParse(r) ==
    /\ ppc = "parse"
    /\ IF r < 0
          THEN /\ ppc' = "failed"
               /\ trace' = trace \o <<Step("hid_parse", r), Step("return", r)>>
          ELSE /\ ppc' = "start"
               /\ trace' = Append(trace, Step("hid_parse", r))
    /\ UNCHANGED <<counter, lock, pc, callvars, report, ret, out, devvars, returns,
                   corrupted, ctrReads, event, pdata, hw, group, drvdata, mutex, sysvars>>

\* lines 190-194: hid_hw_start
ProbeStart(r) ==
    /\ ppc = "start"
    /\ IF r < 0
          THEN /\ ppc' = "failed"
               /\ trace' = trace \o <<Step("hid_hw_start", r), Step("return", r)>>
               /\ hw' = hw
          ELSE /\ ppc' = "init"
               /\ trace' = Append(trace, Step("hid_hw_start", r))
               /\ hw' = "started"
    /\ UNCHANGED <<counter, lock, pc, callvars, report, ret, out, devvars, returns,
                   corrupted, ctrReads, event, pdata, group, drvdata, mutex, sysvars>>

\* line 196: hid_set_drvdata: from here on hid_get_drvdata returns data,
\* whose mutex and counter are still as devm_kzalloc left them
ProbeSetDrvdata ==
    /\ ppc = "init"
    /\ drvdata' = pdata
    /\ ppc' = "init_mid"
    /\ trace' = Append(trace, Step("hid_set_drvdata", 0))
    /\ UNCHANGED <<counter, lock, pc, callvars, report, ret, out, devvars, returns,
                   corrupted, ctrReads, event, pdata, hw, group, mutex, sysvars>>

\* lines 197, 165: eizo_data_init: mutex_init, which leaves the mutex
\* unowned whoever held it; through a NULL data it kills the probing task
ProbeInitMutex ==
    /\ ppc = "init_mid"
    /\ IF pdata = "data"
          THEN /\ mutex' = "init"
               /\ lock' = NoOwner
               /\ ppc' = "init_counter"
          ELSE /\ ppc' = "oops"
               /\ UNCHANGED <<mutex, lock>>
    /\ UNCHANGED <<counter, pc, callvars, report, ret, out, devvars, returns, corrupted,
                   ctrReads, event, pdata, hw, group, drvdata, trace, sysvars>>

\* lines 166-167: eizo_data_init: data->counter = 0x0001, and its return
ProbeInitCounter ==
    /\ ppc = "init_counter"
    /\ counter' = CounterInit
    /\ ppc' = "open"
    /\ trace' = Append(trace, Step("eizo_data_init", 0))
    /\ UNCHANGED <<lock, pc, callvars, report, ret, out, devvars, returns, corrupted,
                   ctrReads, event, pdata, hw, group, drvdata, mutex, sysvars>>

\* lines 199-203: hid_hw_open
ProbeOpen(r) ==
    /\ ppc = "open"
    /\ trace' = Append(trace, Step("hid_hw_open", r))
    /\ ppc' = IF r < 0 THEN "stop" ELSE "group"
    /\ hw' = IF r < 0 THEN hw ELSE "open"
    /\ UNCHANGED <<counter, lock, pc, callvars, report, ret, out, devvars, returns,
                   corrupted, ctrReads, event, pdata, group, drvdata, mutex, sysvars>>

\* lines 205-211: sysfs_create_group, and the return of a probe that succeeded
ProbeGroup(r) ==
    /\ ppc = "group"
    /\ IF r < 0
          THEN /\ ppc' = "close"
               /\ trace' = Append(trace, Step("sysfs_create_group", r))
               /\ group' = group
          ELSE /\ ppc' = "bound"
               /\ trace' = trace \o <<Step("sysfs_create_group", r), Step("return", 0)>>
               /\ group' = "live"
    /\ UNCHANGED <<counter, lock, pc, callvars, report, ret, out, devvars, returns,
                   corrupted, ctrReads, event, pdata, hw, drvdata, mutex, sysvars>>

\* lines 212-213: close: hid_hw_close
ProbeClose ==
    /\ ppc = "close"
    /\ hw' = "started"
    /\ ppc' = "stop"
    /\ trace' = Append(trace, Step("hid_hw_close", 0))
    /\ UNCHANGED <<counter, lock, pc, callvars, report, ret, out, devvars, returns,
                   corrupted, ctrReads, event, pdata, group, drvdata, mutex, sysvars>>

\* lines 214-217: stop: hid_hw_stop, exit: return retval
ProbeStop ==
    /\ ppc = "stop"
    /\ hw' = "stopped"
    /\ ppc' = "failed"
    /\ trace' = trace \o <<Step("hid_hw_stop", 0), Step("return", RetVal(trace))>>
    /\ UNCHANGED <<counter, lock, pc, callvars, report, ret, out, devvars, returns,
                   corrupted, ctrReads, event, pdata, group, drvdata, mutex, sysvars>>

\* lines 220-224: hid_get_drvdata, and sysfs_remove_group up to the point
\* where the attribute takes no new caller
RemoveBegin ==
    /\ ppc = "bound"
    /\ pdata' = drvdata
    /\ group' = "removing"
    /\ ppc' = "rm_group"
    /\ UNCHANGED <<counter, lock, pc, callvars, report, ret, out, devvars, returns,
                   corrupted, ctrReads, event, hw, drvdata, mutex, trace, sysvars>>

\* line 224: sysfs_remove_group returns once the callers inside the
\* attribute's callbacks (drained) have left
RemoveGroup(drained) ==
    /\ ppc = "rm_group"
    /\ drained
    /\ group' = "removed"
    /\ ppc' = "rm_close"
    /\ trace' = Append(trace, Step("sysfs_remove_group", 0))
    /\ UNCHANGED <<counter, lock, pc, callvars, report, ret, out, devvars, returns,
                   corrupted, ctrReads, event, pdata, hw, drvdata, mutex, sysvars>>

\* line 225: hid_hw_close
RemoveClose ==
    /\ ppc = "rm_close"
    /\ hw' = "started"
    /\ ppc' = "rm_uninit"
    /\ trace' = Append(trace, Step("hid_hw_close", 0))
    /\ UNCHANGED <<counter, lock, pc, callvars, report, ret, out, devvars, returns,
                   corrupted, ctrReads, event, pdata, group, drvdata, mutex, sysvars>>

\* line 226: eizo_data_uninit: mutex_destroy
RemoveUninit ==
    /\ ppc = "rm_uninit"
    /\ mutex' = "destroyed"
    /\ ppc' = "rm_stop"
    /\ trace' = Append(trace, Step("eizo_data_uninit", 0))
    /\ UNCHANGED <<counter, lock, pc, callvars, report, ret, out, devvars, returns,
                   corrupted, ctrReads, event, pdata, hw, group, drvdata, sysvars>>

\* line 227: hid_hw_stop
RemoveStop ==
    /\ ppc = "rm_stop"
    /\ hw' = "stopped"
    /\ ppc' = "removed"
    /\ trace' = Append(trace, Step("hid_hw_stop", 0))
    /\ UNCHANGED <<counter, lock, pc, callvars, report, ret, out, devvars, returns,
                   corrupted, ctrReads, event, pdata, group, drvdata, mutex, sysvars>>

\* cpu_to_le16s(&value) seen as the bytes (u8 *)&value
Le16(v) == <<v % 256, (v \div 256) % 256>>

\* the brightness values the sysfs callers write
LifeValues == {Le16(200)}

\* a sysfs_remove_group that waits for nobody
RemovedAtOnce == TRUE

\* no caller is inside a callback of the attribute
Drained == \A t \in Callers : pc[t] = "idle"

\* the device before eizo_hid_driver_probe
LifeInit ==
    /\ counter = CounterZeroed
    /\ lock = NoOwner
    /\ pc = [t \in Callers |-> "idle"]
    /\ op = [t \in Callers |-> "none"]
    /\ usage = [t \in Callers |-> 0]
    /\ value = [t \in Callers |-> <<>>]
    /\ len = [t \in Callers |-> 0]
    /\ report = [t \in Callers |-> NullReport]
    /\ ret = [t \in Callers |-> 0]
    /\ out = [t \in Callers |-> <<>>]
    /\ exch = [t \in Callers |-> 0]
    /\ nexch = 0
    /\ log = <<>>
    /\ returns = <<>>
    /\ dev = [u \in AllUsages |-> [i \in 1..PayloadMax |-> 0]]
    /\ armed = [i \in 1..PayloadOff |-> 0]
    /\ lastSet = [u \in AllUsages |-> [done |-> FALSE, val |-> <<>>]]
    /\ corrupted = FALSE
    /\ ctrReads = {}
    /\ event = NoEvent
    /\ ppc = "unbound"
    /\ pdata = "null"
    /\ hw = "stopped"
    /\ group = "none"
    /\ drvdata = "null"
    /\ mutex = "uninit"
    /\ trace = <<>>
    /\ sbuf = [t \in Callers |-> NoStore]
    /\ stores = <<>>

\* probe and remove, with drained the wait of sysfs_remove_group
Lifecycle(drained) ==
    \/ \E a \in DataResults : ProbeAlloc(a)
    \/ \E r \in ProbeResults : ProbeParse(r)
    \/ \E r \in ProbeResults : ProbeStart(r)
    \/ ProbeSetDrvdata
    \/ ProbeInitMutex
    \/ ProbeInitCounter
    \/ \E r \in ProbeResults : ProbeOpen(r)
    \/ \E r \in ProbeResults : ProbeGroup(r)
    \/ ProbeClose
    \/ ProbeStop
    \/ RemoveBegin
    \/ RemoveGroup(drained)
    \/ RemoveClose
    \/ RemoveUninit
    \/ RemoveStop

\* the brightness attribute is written and read while the group is live;
\* its callbacks pass 2 bytes
LifeNext ==
    \/ Lifecycle(Drained)
    \/ \E t \in Callers :
          \/ \E v \in LifeValues, a \in AllocResults :
                /\ group = "live"
                /\ nexch < MaxLifeCalls
                /\ SetCall(t, EIZO_USAGE_BRIGHTNESS, v, a)
                /\ UNCHANGED sysvars
          \/ SetLock(t)
          \/ SetBuild(t)
          \/ SetBuildOops(t)
          \/ \E r \in ConcResults : SetRequest(t, r)
          \/ SetExit(t)
          \/ SetReturn(t)
          \/ \E a \in AllocResults :
                /\ group = "live"
                /\ nexch < MaxLifeCalls
                /\ GetCall(t, EIZO_USAGE_BRIGHTNESS, 2, a)
          \/ GetLock(t)
          \/ GetBuild(t)
          \/ GetBuildOops(t)
          \/ \E r \in ConcResults : GetArm(t, r)
          \/ \E r \in ConcResults : GetFetch(t, r)
          \/ GetCopy(t, <<>>)
          \/ GetExit(t)
          \/ GetReturn(t)

LifeSpec == LifeInit /\ [][LifeNext]_vars

\* eizo_set_value and eizo_get_value called by other kernel code, whatever
\* probe and remove have done so far; sysfs_remove_group waits for none of
\* these callers
ApiNext ==
    \/ Lifecycle(TRUE)
    \/ \E u \in ConcUsages, v \in ConcValues, a \in AllocResults :
          nexch < MaxApiCalls /\ SetCall(SeqCaller, u, v, a) /\ UNCHANGED sysvars
    \/ \E u \in ConcUsages, n \in ConcLens, a \in AllocResults :
          nexch < MaxApiCalls /\ GetCall(SeqCaller, u, n, a)
    \/ LockFault(SeqCaller)
    \/ CallerRun(SeqCaller, ConcResults)

ApiSpec == LifeInit /\ [][ApiNext]_vars

-----------------------------------------------------------------------------
(* eizo_attr_store_brightness *)

\* the decimal digits, by value
DigitChars == <<"0", "1", "2", "3", "4", "5", "6", "7", "8", "9">>

IsDigit(c) == \E d \in 1..10 : DigitChars[d] = c

DigitOf(c) == (CHOOSE d \in 1..10 : DigitChars[d] = c) - 1

\* ULLONG_MAX, digit by digit
U64MaxDigits == <<1, 8, 4, 4, 6, 7, 4, 4, 0, 7, 3, 7, 0, 9, 5, 5, 1, 6, 1, 5>>

\* the number with the decimal digits d (none of them a leading zero) is
\* above ULLONG_MAX
AboveU64(d) ==
    \/ Len(d) > Len(U64MaxDigits)
    \/ /\ Len(d) = Len(U64MaxDigits)
       /\ \E i \in 1..Len(d) :
             /\ d[i] > U64MaxDigits[i]
             /\ \A j \in 1..(i - 1) : d[j] = U64MaxDigits[j]

\* kstrtou16(buf, 10, &value): an optional '+', then digits, which fail with
\* -ERANGE when they overflow 64 bits; else at least one digit, an optional
\* newline and the end of the string, or -EINVAL; else -ERANGE when the
\* number does not fit 16 bits
Kstrtou16(buf) ==
    LET s == IF Len(buf) > 0 /\ buf[1] = "+" THEN Tail(buf) ELSE buf
        rv == CHOOSE k \in 0..Len(s) :
                  /\ \A i \in 1..k : IsDigit(s[i])
                  /\ k = Len(s) \/ ~IsDigit(s[k + 1])
        zeros == CHOOSE k \in 0..rv :
                     /\ \A i \in 1..k : s[i] = "0"
                     /\ k = rv \/ s[k + 1] # "0"
        digits == [i \in 1..(rv - zeros) |-> DigitOf(s[zeros + i])]
        RECURSIVE Acc(_, _)
        Acc(i, acc) == IF i > Len(digits) THEN acc ELSE Acc(i + 1, acc * 10 + digits[i])
        rest == SubSeq(s, rv + 1, Len(s))
        end == IF Len(rest) > 0 /\ rest[1] = "\n" THEN Tail(rest) ELSE rest
    IN  IF AboveU64(digits) THEN [res |-> -34, value |-> 0]
        ELSE IF rv = 0 \/ Len(end) > 0 THEN [res |-> -22, value |-> 0]
        ELSE IF Len(digits) > 5 THEN [res |-> -34, value |-> 0]
        ELSE IF Acc(1, 0) > 65535 THEN [res |-> -34, value |-> 0]
        ELSE [res |-> 0, value |-> Acc(1, 0)]

\* a check that lets 201 and more through
InRangeUnchecked(v) == TRUE

\* line 119: value < 0 || value > 200 does not hold
InRange(v) == ~(v < 0 \/ v > 200)

\* what is written to the attribute
StoreBufs ==
    { <<"0">>, <<"2", "0", "0", "\n">>, <<"2", "0", "1">>, <<"+", "7">>,
      <<"6", "5", "5", "3", "6">>, <<"1", "2", "a">>,
      <<"4", "2", "9", "4", "9", "6", "7", "2", "9", "6">> }

\* the writes begun so far
StoresBegun == Len(stores) + Cardinality({t \in Callers : sbuf[t].stage # "none"})

\* one write that returned
Stored(t, buf, parsed, e, r) ==
    [caller |-> t, buf |-> buf, parsed |-> parsed, exch |-> e, ret |-> r]

\* lines 110-121: a write refused before eizo_set_value is called
StoreReject(t, buf) ==
    /\ pc[t] = "idle"
    /\ sbuf[t].stage = "none"
    /\ LET p == Kstrtou16(buf)
       IN  /\ p.res < 0 \/ ~InRange(p.value)
           /\ stores' = Append(stores,
                               IF p.res < 0 THEN Stored(t, buf, p, 0, -22)
                                            ELSE Stored(t, buf, p, 0, -75))
    /\ UNCHANGED <<counter, lock, pc, callvars, report, ret, out, devvars, returns,
                   corrupted, ctrReads, extvars, sbuf>>

\* lines 110-125: a write that reaches eizo_set_value
StoreInvoke(t, buf, a) ==
    /\ sbuf[t].stage = "none"
    /\ LET p == Kstrtou16(buf)
       IN  /\ p.res >= 0
           /\ InRange(p.value)
           /\ SetCall(t, EIZO_USAGE_BRIGHTNESS, Le16(p.value), a)
           /\ sbuf' = [sbuf EXCEPT ![t] = [stage |-> "set", buf |-> buf, parsed |-> p,
                                           exch |-> nexch + 1]]
    /\ UNCHANGED stores

\* lines 126-131: eizo_set_value has returned res
StoreReturn(t) ==
    /\ sbuf[t].stage = "set"
    /\ pc[t] = "idle"
    /\ stores' = Append(stores,
                        Stored(t, sbuf[t].buf, sbuf[t].parsed, sbuf[t].exch,
                               IF ret[t] < 0 THEN ret[t] ELSE Len(sbuf[t].buf)))
    /\ sbuf' = [sbuf EXCEPT ![t] = NoStore]
    /\ UNCHANGED <<counter, lock, pc, callvars, report, ret, out, devvars, returns,
                   corrupted, ctrReads, extvars>>

\* writers of the brightness attribute of a bound device
StoreNext ==
    \E t \in Callers :
        \/ \E buf \in StoreBufs : StoresBegun < MaxStores /\ StoreReject(t, buf)
        \/ \E buf \in StoreBufs, a \in AllocResults :
              StoresBegun < MaxStores /\ StoreInvoke(t, buf, a)
        \/ SetLock(t)
        \/ SetBuild(t)
        \/ SetBuildOops(t)
        \/ \E r \in ConcResults : SetRequest(t, r)
        \/ SetExit(t)
        \/ SetReturn(t)
        \/ StoreReturn(t)

StoreSpec == Init /\ [][StoreNext]_vars

-----------------------------------------------------------------------------
(* Terms of the claims *)

\* caller t stands between mutex_lock and mutex_unlock; a task that died
\* did so there and holds the lock for good
Holding(t) ==
    pc[t] \in {"set_build", "set_request", "set_exit",
               "get_build", "get_arm", "get_fetch", "get_copy", "get_exit", "oops"}

Waiting(t) == pc[t] \in {"set_lock", "get_lock"}

\* the positions in the log of the transport calls of exchange e
CallsOf(e) == {i \in 1..Len(log) : log[i].exch = e}

IsArm(c) == c.id = GetReportId /\ c.req = HID_REQ_SET_REPORT
IsFetch(c) == c.id = GetReportId /\ c.req = HID_REQ_GET_REPORT

-----------------------------------------------------------------------------
(* C1 *)

\* C1: at most one caller stands between acquiring and releasing data->lock,
\* so at most one exchange is in flight on the device.
MutualExclusion == Cardinality({t \in Callers : Holding(t)}) <= 1

\* one caller inside its exchange while another waits in mutex_lock
MutualExclusionWitness ==
    \E t, w \in Callers : Holding(t) /\ pc[t] # "oops" /\ Waiting(w)

-----------------------------------------------------------------------------
(* C2 *)

\* C2: in the log of transport calls the calls of one exchange are
\* contiguous, the fetch of a get directly follows its arm, and every call
\* was issued by the caller that owned the lock.
ExchangesContiguous ==
    /\ \A i, k \in 1..Len(log) :
          (i < k /\ log[i].exch = log[k].exch) =>
              \A j \in i..k : log[j].exch = log[i].exch
    /\ \A i \in 1..Len(log) :
          IsFetch(log[i]) =>
              i > 1 /\ IsArm(log[i - 1]) /\ log[i - 1].exch = log[i].exch
    /\ \A i \in 1..Len(log) : log[i].owner = log[i].caller

\* a get issued its arm and its fetch while another caller, who had already
\* called, was waiting for the lock, and that caller's call is logged too
ExchangesContiguousWitness ==
    \E i, j \in 1..Len(log) :
        /\ IsFetch(log[i])
        /\ log[j].caller # log[i].caller
        /\ log[j].exch < log[i].exch
        /\ j > i

-----------------------------------------------------------------------------
(* C3 *)

\* C3: a call that has returned does not own the lock, whichever way it
\* left, and when no caller stands between lock and unlock the lock is free
\* for the next call.
ReleasedOnEveryExit ==
    /\ \A t \in Callers : pc[t] \in {"after_unlock", "idle"} => lock # t
    /\ (\A t \in Callers : ~Holding(t)) => lock = NoOwner

\* a call failed, and a call started after it returned took the lock and
\* succeeded
ReleasedOnEveryExitWitness ==
    \E i, j \in 1..Len(returns) :
        /\ i < j
        /\ returns[i].ret < 0
        /\ returns[j].ret = 0
        /\ returns[j].caller = returns[i].caller
        /\ lock = NoOwner

-----------------------------------------------------------------------------
(* C4 *)

\* C4: after a failed arm call no fetch is issued for that exchange, the get
\* goes straight to its exit, and once it has returned the lock is not its.
ArmFailureStops ==
    /\ \A i \in 1..Len(log) :
          (IsArm(log[i]) /\ log[i].res < 0) =>
              \A j \in CallsOf(log[i].exch) : ~IsFetch(log[j])
    /\ \A t \in Callers :
          (\E i \in CallsOf(exch[t]) : IsArm(log[i]) /\ log[i].res < 0) =>
              /\ pc[t] \in {"get_exit", "after_unlock", "idle"}
              /\ pc[t] \in {"after_unlock", "idle"} => (lock # t /\ ret[t] < 0)

\* a get whose arm call failed has returned, and the lock is free
ArmFailureStopsWitness ==
    \E t \in Callers :
        /\ pc[t] = "idle"
        /\ op[t] = "get"
        /\ \E i \in CallsOf(exch[t]) : IsArm(log[i]) /\ log[i].res < 0
        /\ lock = NoOwner

-----------------------------------------------------------------------------
(* C5 *)

\* C5: a set or get with a length above 32 fails with InvalidArgument
\* (-EINVAL, -22) at once: it never stands between lock and unlock and
\* never issues a transport call.
LongPayloadRejected ==
    \A t \in Callers :
        (op[t] # "none" /\ len[t] > PayloadMax) =>
            /\ ~Holding(t)
            /\ CallsOf(exch[t]) = {}
            /\ pc[t] = "idle" => ret[t] = -22

-----------------------------------------------------------------------------
(* C6 *)

\* x in n bytes, least significant byte first
LittleEndian(x, n) == [i \in 1..n |-> (x \div (256 ^ (i - 1))) % 256]

\* the wire format: a zero byte, the usage in 4 bytes, the counter in 2, then
\* the payload left-aligned in 32 zero-padded bytes
ExpectedFrame(u, c, payload) ==
    <<0>> \o LittleEndian(u, 4) \o LittleEndian(c, 2) \o payload
          \o [i \in 1..(PayloadMax - Len(payload)) |-> 0]

\* C6: for a payload of at most 32 bytes the frame handed to the first
\* transport call of an exchange (a SET_REPORT) is the 39-byte wire format
\* of the usage, the counter and the payload (no payload for a get).
FrameEncoding ==
    \A i \in 1..Len(log) :
        LET c == log[i]
            t == c.caller
        IN  (c.exch = exch[t] /\ c.req = HID_REQ_SET_REPORT /\ len[t] <= PayloadMax) =>
                /\ c.len = ReportLen
                /\ Len(c.frame) = ReportLen
                /\ c.frame = ExpectedFrame(usage[t], counter,
                                           IF c.op = "set" THEN value[t] ELSE <<>>)

\* set(usage 1, [AA BB]) with counter 1 put 00 01 00 00 00 01 00 AA BB 00..00
\* on the wire, and a get of the four-byte usage put its header on the wire
FrameEncodingWitness ==
    /\ \E i \in 1..Len(log) :
          /\ log[i].id = SetReportId
          /\ log[i].frame = <<0, 1, 0, 0, 0, 1, 0, 170, 187>> \o [k \in 1..30 |-> 0]
    /\ \E i \in 1..Len(log) :
          /\ IsArm(log[i])
          /\ SubSeq(log[i].frame, 1, 9) = <<0, 120, 86, 52, 18, 1, 0, 0, 0>>

-----------------------------------------------------------------------------
(* C7 *)

\* the last transport call of exchange e transferred a whole report
FullFetch(e) ==
    \E i \in CallsOf(e) :
        /\ IsFetch(log[i])
        /\ log[i].res = ReportLen

\* C7: against a monitor that answers a get with the payload region last
\* written for the usage, a get that succeeds returns the bytes of the last
\* successful set of that usage with the same length (at most 32).
RoundTrip ==
    \A t \in Callers :
        ( /\ op[t] = "get"
          /\ pc[t] \in {"get_exit", "after_unlock", "idle"}
          /\ ret[t] = 0
          /\ FullFetch(exch[t])
          /\ lastSet[usage[t]].done
          /\ Len(lastSet[usage[t]].val) = len[t]
          /\ len[t] <= PayloadMax )
        => out[t] = lastSet[usage[t]].val

\* a set of 32 bytes, then a get of 32 bytes of the same usage that returned them
RoundTripWitness ==
    \E t \in Callers :
        /\ op[t] = "get"
        /\ pc[t] = "idle"
        /\ ret[t] = 0
        /\ FullFetch(exch[t])
        /\ lastSet[usage[t]].done
        /\ len[t] = PayloadMax
        /\ out[t] = lastSet[usage[t]].val
        /\ out[t] = ValueOf(PayloadMax, 0)

-----------------------------------------------------------------------------
(* C8 *)

\* C8: a set exchange issues one transport call, a SET_REPORT with report
\* identifier 2 and length 39, and no other call, whether it fails or not.
SetIssuesOneCall ==
    /\ \A i \in 1..Len(log) :
          log[i].op = "set" =>
              /\ log[i].id = SetReportId
              /\ log[i].req = HID_REQ_SET_REPORT
              /\ log[i].len = ReportLen
              /\ CallsOf(log[i].exch) = {i}
    /\ \A k \in 1..Len(returns) :
          returns[k].op = "set" => Cardinality(CallsOf(returns[k].exch)) = 1

\* one set returned a failure and one returned success
SetIssuesOneCallWitness ==
    /\ \E k \in 1..Len(returns) : returns[k].op = "set" /\ returns[k].ret < 0
    /\ \E k \in 1..Len(returns) : returns[k].op = "set" /\ returns[k].ret = 0

-----------------------------------------------------------------------------
(* C9 *)

\* C9: a get that succeeded issued two transport calls, the arm (SET_REPORT,
\* identifier 3) and then the fetch (GET_REPORT, identifier 3), both of 39
\* bytes on the one buffer; a fetch is never issued before its arm.
GetIssuesArmThenFetch ==
    /\ \A k \in 1..Len(returns) :
          (returns[k].op = "get" /\ returns[k].ret = 0) =>
              \E i \in 1..Len(log) :
                  /\ CallsOf(returns[k].exch) = {i, i + 1}
                  /\ IsArm(log[i]) /\ IsFetch(log[i + 1])
                  /\ log[i].res >= 0 /\ log[i + 1].res >= 0
                  /\ log[i].len = ReportLen /\ log[i + 1].len = ReportLen
                  /\ log[i + 1].frame = log[i].frame
    /\ \A i \in 1..Len(log) :
          log[i].op = "get" =>
              /\ log[i].id = GetReportId
              /\ IsFetch(log[i]) =>
                    \E j \in 1..(i - 1) : IsArm(log[j]) /\ log[j].exch = log[i].exch

\* a get returned success
GetIssuesArmThenFetchWitness ==
    \E k \in 1..Len(returns) :
        /\ returns[k].op = "get"
        /\ returns[k].ret = 0
        /\ Cardinality(CallsOf(returns[k].exch)) = 2

-----------------------------------------------------------------------------
(* C10 *)

\* C10: a call one of whose transport calls failed returns that call's
\* negative status as it is; a call whose transport calls all succeeded
\* returns 0, whatever byte counts they reported.
StatusPropagated ==
    \A k \in 1..Len(returns) :
        LET failed == {i \in CallsOf(returns[k].exch) : log[i].res < 0}
        IN  IF failed # {}
            THEN \E i \in failed : returns[k].ret = log[i].res
            ELSE returns[k].ret = 0

\* a set returned -EPIPE, and a get returned 0 after a short fetch
StatusPropagatedWitness ==
    /\ \E k \in 1..Len(returns) : returns[k].op = "set" /\ returns[k].ret = -32
    /\ \E k \in 1..Len(returns) :
          /\ returns[k].op = "get"
          /\ returns[k].ret = 0
          /\ \E i \in CallsOf(returns[k].exch) :
                IsFetch(log[i]) /\ log[i].res = PayloadOff + 1

-----------------------------------------------------------------------------
(* C11 *)

\* C11: a set or get whose kzalloc failed returns AllocError (-ENOMEM, -12):
\* it never takes the lock, never stores through the missing buffer (which
\* kills it) and never issues a transport call.
AllocFailureReported ==
    \A t \in Callers :
        (op[t] # "none" /\ report[t] = NullReport) =>
            /\ ~Holding(t)
            /\ CallsOf(exch[t]) = {}
            /\ pc[t] = "idle" => ret[t] = -12

-----------------------------------------------------------------------------
(* C15 *)

\* C15: whoever reads data->counter in set or get owns data->lock at that
\* moment; nothing reads it before mutex_lock or after mutex_unlock.
CounterUnderLock == \A a \in ctrReads : a.owner = a.caller

\* two callers have read the counter, the second after waiting for the first
CounterUnderLockWitness ==
    \E a, b \in ctrReads :
        /\ a.caller # b.caller
        /\ \E t \in Callers : t = a.caller /\ Holding(t) /\ pc[t] # "oops"
        /\ Len(returns) > 0

-----------------------------------------------------------------------------
(* C16 *)

\* C16: a get that returned 0 delivered, for each of its len bytes, the byte
\* at that offset behind byte 7 of the 39-byte frame the fetch left; a get
\* that returned an error left the caller's buffer as it was.
GetDeliversFrameBytes ==
    \A t \in Callers :
        (op[t] = "get" /\ pc[t] = "idle") =>
            /\ ret[t] = 0 =>
                  /\ Len(out[t]) = len[t]
                  /\ \A i \in 1..len[t] :
                        /\ PayloadOff + i - 1 < ReportLen
                        /\ out[t][i] = At(report[t], PayloadOff + i - 1)
            /\ ret[t] < 0 => out[t] = OutInit(len[t])

-----------------------------------------------------------------------------
(* C19 *)

\* C19: the calls never get stuck: when no caller can take a step, every
\* call has returned and the lock is free.
CallsNeverStuck ==
    (~ENABLED Next) => (lock = NoOwner /\ \A t \in Callers : pc[t] = "idle")

-----------------------------------------------------------------------------
(* C13 *)

\* the n bytes of d from offset off, read least significant byte first
FromLittleEndian(d, off, n) ==
    LET RECURSIVE Sum(_)
        Sum(k) == IF k = n THEN 0 ELSE At(d, off + k) * (256 ^ k) + Sum(k + 1)
    IN  Sum(0)

\* the logged line is the decoding of the report it came from
EventDecoded ==
    /\ event.kind = "decoded" =>
          /\ event.raw.id \in {SetReportId, GetReportId}
          /\ Len(event.raw.data) >= EventReadLen =>
                /\ event.id = event.raw.data[1]
                /\ event.usage = FromLittleEndian(event.raw.data, 1, 4)
                /\ event.counter = FromLittleEndian(event.raw.data, 5, 2)
                /\ event.value = FromLittleEndian(event.raw.data, 7, 4)
    /\ event.kind = "opaque" =>
          /\ event.raw.id \notin {SetReportId, GetReportId}
          /\ event.id = event.raw.id

\* the handler can run whatever the callers and the lock are doing
EventNeverWaits == ENABLED (\E r \in EventReports, junk \in EventJunk : RawEvent(r, junk))

\* C13: handling a notification never waits for data->lock, leaves the
\* lock, the counter and every caller where they are, and for identifiers
\* 2 and 3 logs event-id = byte 0, usage = bytes 1-4, counter = bytes 5-6 and
\* value = bytes 7-10, each least significant byte first.
NotificationsHarmless ==
    /\ [](EventDecoded /\ EventNeverWaits)
    /\ [][event' # event =>
            (counter' = counter /\ lock' = lock /\ pc' = pc /\ ctrReads' = ctrReads)]_vars

\* the report of identifier 2 was decoded while a get stood between its arm
\* and its fetch
NotificationsHarmlessWitness ==
    /\ event.kind = "decoded"
    /\ event.raw.id = SetReportId
    /\ event.id = 5
    /\ event.usage = 305419896
    /\ event.counter = 1
    /\ event.value = 218893066
    /\ \E t \in Callers : pc[t] = "get_fetch" /\ lock = t

-----------------------------------------------------------------------------
(* C14 *)

\* C14: the sequence counter is 1 in every state, whatever sets, gets and
\* notifications ran, and bytes 5-6 of every frame sent are 01 00.
CounterStaysOne ==
    /\ counter = 1
    /\ \A i \in 1..Len(log) : At(log[i].frame, 5) = 1 /\ At(log[i].frame, 6) = 0

\* a call has returned, a notification was decoded, and frames were sent
CounterStaysOneWitness ==
    /\ Len(returns) > 0
    /\ Len(log) > 0
    /\ event.kind = "decoded"
    /\ event.counter # counter

-----------------------------------------------------------------------------
(* C12 *)

\* probe is over and never initialised the session
SessionFailed == ppc \in {"failed", "oops"} /\ mutex = "uninit"

\* remove has run eizo_data_uninit
SessionClosed == mutex = "destroyed"

\* caller t enters eizo_set_value or eizo_get_value in this step
Enters(t) == pc[t] = "idle" /\ nexch' = nexch + 1 /\ exch'[t] = nexch'

\* C12: a set or get entered on a session that failed to initialise or has
\* been closed returns -ENODATA at once: the caller stays outside the
\* exchange, the lock is not taken and no transport call is issued.
UnavailableReported ==
    [][\A t \in Callers :
          (Enters(t) /\ (SessionFailed \/ SessionClosed)) =>
              /\ pc'[t] = "idle"
              /\ ret'[t] = -61
              /\ returns' = Append(returns, [exch |-> nexch', caller |-> t,
                                             op |-> op'[t], ret |-> -61])
              /\ lock' = lock
              /\ log' = log]_vars

-----------------------------------------------------------------------------
(* C17 *)

\* call a was made before call b, both in the remove part of the trace
RemovedBefore(a, b) ==
    \E i, j \in 1..Len(trace) :
        /\ i < j
        /\ trace[i] = Step(a, 0)
        /\ trace[j] = Step(b, 0)
        /\ \A k \in i..j : trace[k].call # "return"

\* C17: when remove destroys the mutex, sysfs_remove_group and hid_hw_close
\* have been called before, no caller holds the lock or waits for it, and
\* from then on no transport call is issued.
SessionClosedLast ==
    /\ [](mutex = "destroyed" =>
            /\ group = "removed"
            /\ hw # "open"
            /\ RemovedBefore("sysfs_remove_group", "eizo_data_uninit")
            /\ RemovedBefore("hid_hw_close", "eizo_data_uninit")
            /\ lock = NoOwner
            /\ \A t \in Callers : ~Holding(t) /\ ~Waiting(t))
    /\ [][mutex = "destroyed" => log' = log]_vars

\* remove has finished on a device whose attribute was used by two calls,
\* one of which found the lock taken
SessionClosedLastWitness ==
    /\ ppc = "removed"
    /\ mutex = "destroyed"
    /\ Len(returns) >= 2
    /\ Len(log) >= 2
    /\ \E r \in ctrReads : r.caller # returns[1].caller
    /\ returns[1].exch = 2

-----------------------------------------------------------------------------
(* C18 *)

\* call a is in the trace, with result r
Called(a, r) == \E i \in 1..Len(trace) : trace[i] = Step(a, r)

\* C18: the group is live only with the session initialised and the
\* transport started and opened; a probe that is over without success
\* never exposed the group, called hid_hw_close only after hid_hw_open
\* succeeded and hid_hw_stop only after hid_hw_start succeeded, and left the
\* transport stopped with close before stop.
ProbeUnwinds ==
    /\ group = "live" =>
          /\ drvdata = "data"
          /\ mutex = "init"
          /\ counter = 1
          /\ hw = "open"
          /\ Called("hid_hw_start", 0) /\ Called("hid_hw_open", 0)
    /\ (group = "live" /\ nexch = 0) => lock = NoOwner
    /\ ppc \in {"failed", "oops"} =>
          /\ group = "none"
          /\ ~Called("sysfs_create_group", 0)
          /\ Called("hid_hw_close", 0) => Called("hid_hw_open", 0)
          /\ Called("hid_hw_stop", 0) => Called("hid_hw_start", 0)
          /\ Called("hid_hw_open", 0) =>
                /\ Called("hid_hw_close", 0)
                /\ \E i, j \in 1..Len(trace) :
                      i < j /\ trace[i].call = "hid_hw_close" /\ trace[j].call = "hid_hw_stop"
          /\ Called("hid_hw_start", 0) => Called("hid_hw_stop", 0)
          /\ hw = "stopped"

-----------------------------------------------------------------------------
(* C20 *)

\* C20: a brightness write whose number is above 200 returns -EOVERFLOW and
\* starts no exchange; a write of 0..200 starts exactly one set exchange,
\* whose one frame carries EIZO_USAGE_BRIGHTNESS and the number in 2 bytes,
\* least significant first, and returns the exchange's error or else count.
BrightnessStore ==
    /\ \A i \in 1..Len(stores) :
          LET s == stores[i]
          IN  /\ (s.parsed.res = 0 /\ s.parsed.value > 200) =>
                    /\ s.ret = -75
                    /\ s.exch = 0
              /\ (s.parsed.res = 0 /\ s.parsed.value \in 0..200) =>
                    /\ s.exch >= 1
                    /\ \A j \in 1..Len(stores) : stores[j].exch = s.exch => j = i
                    /\ \E k \in 1..Len(returns) :
                          /\ returns[k] = [exch |-> s.exch, caller |-> s.caller,
                                           op |-> "set", ret |-> returns[k].ret]
                          /\ \A m \in 1..Len(returns) : returns[m].exch = s.exch => m = k
                          /\ s.ret = IF returns[k].ret < 0 THEN returns[k].ret
                                                           ELSE Len(s.buf)
                    /\ Cardinality(CallsOf(s.exch)) = 1
                    /\ \A c \in CallsOf(s.exch) :
                          /\ log[c].op = "set"
                          /\ log[c].frame = ExpectedFrame(EIZO_USAGE_BRIGHTNESS, 1,
                                                          LittleEndian(s.parsed.value, 2))
    /\ nexch = Cardinality({i \in 1..Len(stores) : stores[i].exch # 0})
               + Cardinality({t \in Callers : sbuf[t].stage # "none"})
    /\ \A c \in 1..Len(log) :
          \/ \E i \in 1..Len(stores) : stores[i].exch = log[c].exch
          \/ \E t \in Callers : sbuf[t].stage = "set" /\ sbuf[t].exch = log[c].exch

\* "201" was refused with -EOVERFLOW, and "200\n" was sent as C8 00 and
\* returned 4
BrightnessStoreWitness ==
    \E i, j \in 1..Len(stores) :
        /\ stores[i].buf = <<"2", "0", "1">>
        /\ stores[i].ret = -75
        /\ stores[j].buf = <<"2", "0", "0", "\n">>
        /\ stores[j].ret = 4
        /\ \E c \in CallsOf(stores[j].exch) :
              /\ At(log[c].frame, 7) = 200
              /\ At(log[c].frame, 8) = 0
              /\ log[c].res >= 0
        /\ Len(log) = 1

=============================================================================
